---- MODULE Spec2Model ----
(***************************************************************************)
(* Model of test-api.py: a sequential prober that issues five HTTP calls   *)
(* against a backend, prints a projection of every response, and wraps the *)
(* whole sequence in one try/except Exception.                             *)
(*                                                                         *)
(* The backend is the environment: every call either raises a connection   *)
(* error or returns a status code and a body; the body either fails to     *)
(* decode or decodes to a JSON value.  JSON values are tagged records:     *)
(*   [t |-> "null"], [t |-> "num", v], [t |-> "str", v],                  *)
(*   [t |-> "list", v |-> sequence of values],                             *)
(*   [t |-> "obj",  v |-> sequence of <<key, value>> pairs].               *)
(***************************************************************************)
EXTENDS Integers, Sequences, FiniteSets, TLC

VARIABLES pc, step, calls, received, out, response, data, structures, it, i, s, exc, exitcode

vars == <<pc, step, calls, received, out, response, data, structures, it, i, s, exc, exitcode>>

(***************************************************************************)
(* Bounds of the environment.                                              *)
(***************************************************************************)
MaxStructs == 2

(***************************************************************************)
(* JSON / Python values.                                                   *)
(***************************************************************************)
None == [t |-> "null"]
Num(n) == [t |-> "num", v |-> n]
Str(x) == [t |-> "str", v |-> x]
List(xs) == [t |-> "list", v |-> xs]
Obj(pairs) == [t |-> "obj", v |-> pairs]
Unbound == [t |-> "unbound"]

Ok(v) == [ok |-> TRUE, val |-> v]
Raise(cls, text) == [ok |-> FALSE, exc |-> [cls |-> cls, text |-> text]]

\* type(v).__name__
TypeName(v) ==
    CASE v.t = "null" -> "NoneType"
      [] v.t = "num"  -> "int"
      [] v.t = "str"  -> "str"
      [] v.t = "list" -> "list"
      [] v.t = "obj"  -> "dict"

HasKey(d, k) == \E j \in 1..Len(d.v) : d.v[j][1] = k

Lookup(d, k) == d.v[CHOOSE j \in 1..Len(d.v) : d.v[j][1] = k][2]

\* v[k] in place of v.get(k, default): a missing key raises
GetNoDefault(v, k, default) ==
    IF v.t = "obj"
    THEN IF HasKey(v, k) THEN Ok(Lookup(v, k)) ELSE Raise("KeyError", "'" \o k \o "'")
    ELSE Raise("TypeError", "'" \o TypeName(v) \o "' object is not subscriptable")

\* v.get(k, default): only a dict has the attribute.
Get(v, k, default) ==
    IF v.t = "obj"
    THEN Ok(IF HasKey(v, k) THEN Lookup(v, k) ELSE default)
    ELSE Raise("AttributeError",
               "'" \o TypeName(v) \o "' object has no attribute 'get'")

\* v.get(k1, {}).get(k2)
GetNested(v, k1, k2) ==
    LET r == Get(v, k1, Obj(<<>>))
    IN  IF r.ok THEN Get(r.val, k2, None) ELSE r

\* v.get(k1, {}).get(k2, [])
GetNested2(v, k1, k2) ==
    LET r == Get(v, k1, Obj(<<>>))
    IN  IF r.ok THEN Get(r.val, k2, List(<<>>)) ELSE r

\* len(v)
PyLen(v) ==
    IF v.t \in {"list", "obj", "str"}
    THEN Ok(Len(v.v))
    ELSE Raise("TypeError",
               "object of type '" \o TypeName(v) \o "' has no len()")

\* the j-th value produced by iterating v (1-based): a list yields its
\* entries, a dict its keys, a str one-character strings.
Item(v, j) ==
    CASE v.t = "list" -> v.v[j]
      [] v.t = "obj"  -> Str(v.v[j][1])
      [] v.t = "str"  -> Str("c")

RECURSIVE Repr(_)
RECURSIVE JoinRepr(_, _)
RECURSIVE JoinPairs(_, _)
\* repr(v), as an f-string renders a value nested in a container
Repr(v) ==
    CASE v.t = "null" -> "None"
      [] v.t = "num"  -> ToString(v.v)
      [] v.t = "str"  -> "'" \o v.v \o "'"
      [] v.t = "list" -> "[" \o JoinRepr(v.v, 1) \o "]"
      [] v.t = "obj"  -> "{" \o JoinPairs(v.v, 1) \o "}"
JoinRepr(xs, j) ==
    IF j > Len(xs) THEN ""
    ELSE Repr(xs[j]) \o (IF j < Len(xs) THEN ", " ELSE "") \o JoinRepr(xs, j + 1)
JoinPairs(ps, j) ==
    IF j > Len(ps) THEN ""
    ELSE "'" \o ps[j][1] \o "': " \o Repr(ps[j][2])
         \o (IF j < Len(ps) THEN ", " ELSE "") \o JoinPairs(ps, j + 1)

\* str(v), as an f-string renders a top-level value
Render(v) == IF v.t = "str" THEN v.v ELSE Repr(v)

(***************************************************************************)
(* The script's literals.                                                  *)
(***************************************************************************)
BASE_URL == "http://127.0.0.1:5000"

\* the request of step k: method and URL
Endpoints ==
    << [method |-> "POST", url |-> BASE_URL \o "/api/register"],
       [method |-> "POST", url |-> BASE_URL \o "/api/login"],
       [method |-> "GET",  url |-> BASE_URL \o "/api/user/john@example.com"],
       [method |-> "POST", url |-> BASE_URL \o "/api/user/john@example.com/save-structure"],
       [method |-> "GET",  url |-> BASE_URL \o "/api/user/john@example.com/structures"] >>

NumSteps == Len(Endpoints)

\* the announcement of step k (the leading emoji is left out)
Banners ==
    << "Testing Registration API...",
       "Testing Login API...",
       "Testing User Profile API...",
       "Testing Save Structure API...",
       "Testing Get Structures API..." >>

(***************************************************************************)
(* The backend: what a call can return.                                    *)
(***************************************************************************)
Malformed == [decodable |-> FALSE]
Body(v) == [decodable |-> TRUE, json |-> v]

StatusCodes == {200, 500}

\* the outcome of a call that found nobody listening
Refused == [refused |-> TRUE]

John == Obj(<< <<"email", Str("john@example.com")>>, <<"fullName", Str("John Scientist")>> >>)

\* a saved structure as the backend lists it: its name and its three nodes
Water == Obj(<< <<"name", Str("Water")>>,
                <<"data", Obj(<< <<"nodes", List(<<Obj(<<>>), Obj(<<>>), Obj(<<>>)>>)>> >>)>> >>)

\* entries a structures list may hold
Entries ==
    { None,
      Obj(<<>>),
      Obj(<< <<"data", Obj(<<>>)>> >>),
      Obj(<< <<"name", Str("Water")>>, <<"data", None>> >>),
      Obj(<< <<"name", Str("Water")>>, <<"data", Obj(<< <<"nodes", None>> >>)>> >>),
      Water }

StructLists == UNION { [1..n -> Entries] : n \in 0..MaxStructs }

\* the bodies the backend may answer step k with
Bodies(k) ==
    CASE k = 1 -> { Malformed,
                    Body(Obj(<< <<"message", Str("User registered")>> >>)) }
      [] k = 2 -> { Malformed, Body(None), Body(Obj(<<>>)),
                    Body(Obj(<< <<"user", None>> >>)),
                    Body(Obj(<< <<"user", Obj(<<>>)>> >>)),
                    Body(Obj(<< <<"user", John>> >>)) }
      [] k = 3 -> { Malformed, Body(List(<<>>)), Body(Obj(<<>>)), Body(John) }
      [] k = 4 -> { Malformed, Body(Num(0)), Body(Obj(<<>>)),
                    Body(Obj(<< <<"structure", None>> >>)),
                    Body(Obj(<< <<"structure", Obj(<<>>)>> >>)),
                    Body(Obj(<< <<"structure",
                          Obj(<< <<"name", Str("Water Molecule")>>, <<"id", Num(1)>> >>)>> >>)) }
      [] k = 5 -> { Malformed, Body(None), Body(Obj(<<>>)),
                    Body(Obj(<< <<"structures", None>> >>)),
                    Body(Obj(<< <<"structures", Str("")>> >>)),
                    Body(Obj(<< <<"structures", Obj(<< <<"a", None>> >>)>> >>)) }
                  \cup { Body(Obj(<< <<"structures", List(l)>> >>)) : l \in StructLists }

\* response.json()
Json(r) ==
    IF r.body.decodable
    THEN Ok(r.body.json)
    ELSE Raise("JSONDecodeError", "Expecting value: line 1 column 1 (char 0)")

(***************************************************************************)
(* Control flow helpers.                                                   *)
(***************************************************************************)
\* print(...): append one line to standard output
Write(line) == out' = Append(out, line)

\* `except requests.RequestException` in place of `except Exception`
IsRequestException(cls) == cls \in {"ConnectionError", "JSONDecodeError"}

\* the classes `except Exception` catches, among those the steps raise
IsException(cls) ==
    cls \in {"ConnectionError", "JSONDecodeError", "AttributeError", "TypeError"}

\* an exception raised inside the try block transfers control to the handler
Throw(e) == /\ exc' = e
            /\ pc' = "except"

Init ==
    /\ pc = "start"
    /\ step = 1
    /\ calls = <<>>
    /\ received = <<>>
    /\ out = <<>>
    /\ response = Unbound
    /\ data = Unbound
    /\ structures = Unbound
    /\ it = 0
    /\ i = 0
    /\ s = Unbound
    /\ exc = Unbound
    /\ exitcode = -1

\* line 4
WriteHeader ==
    /\ pc = "start"
    /\ Write([kind |-> "header", parts |-> <<"Testing API Endpoints...">>])
    /\ pc' = "banner"
    /\ UNCHANGED <<step, calls, received, response, data, structures, it, i, s, exc, exitcode>>

\* lines 11, 22, 33, 41, 60
WriteBanner ==
    /\ pc = "banner"
    /\ Write([kind |-> "banner", parts |-> <<Banners[step]>>])
    /\ pc' = "call"
    /\ UNCHANGED <<step, calls, received, response, data, structures, it, i, s, exc, exitcode>>

\* a call that is sent again when it is refused
HttpCallRetry ==
    /\ pc = "call"
    /\ calls' = Append(calls, Endpoints[step])
    /\ \/ /\ received' = Append(received, Refused)
          /\ UNCHANGED <<pc, exc, response>>
       \/ \E code \in StatusCodes, b \in Bodies(step) :
            /\ response' = [refused |-> FALSE, status_code |-> code, body |-> b]
            /\ received' = Append(received, response')
            /\ pc' = "status"
            /\ UNCHANGED exc
    /\ UNCHANGED <<step, out, data, structures, it, i, s, exitcode>>

\* lines 12-16, 23-26, 34, 42-53, 61: requests.post / requests.get.
\* calls records the requests sent, received what came back for each.
HttpCall ==
    /\ pc = "call"
    /\ calls' = Append(calls, Endpoints[step])
    /\ \/ /\ received' = Append(received, Refused)
          /\ Throw([cls |-> "ConnectionError", text |-> "Connection refused"])
          /\ UNCHANGED response
       \/ \E code \in StatusCodes, b \in Bodies(step) :
            /\ response' = [refused |-> FALSE, status_code |-> code, body |-> b]
            /\ received' = Append(received, response')
            /\ pc' = "status"
            /\ UNCHANGED exc
    /\ UNCHANGED <<step, out, data, structures, it, i, s, exitcode>>

\* response.raise_for_status() ahead of the status line
WriteStatusRaising ==
    /\ pc = "status"
    /\ IF response.status_code >= 400
       THEN /\ Throw([cls |-> "HTTPError", text |-> ToString(response.status_code)])
            /\ UNCHANGED out
       ELSE /\ Write([kind |-> "status", parts |-> <<"   Status: ", ToString(response.status_code)>>])
            /\ pc' = IF step = 1 THEN "response" ELSE "decode"
            /\ UNCHANGED exc
    /\ UNCHANGED <<step, calls, received, response, data, structures, it, i, s, exitcode>>

\* the body decoded in the statement that prints the status line
WriteStatusDecodesFirst ==
    /\ pc = "status"
    /\ IF Json(response).ok
       THEN /\ Write([kind |-> "status", parts |-> <<"   Status: ", ToString(response.status_code)>>])
            /\ pc' = IF step = 1 THEN "response" ELSE "decode"
            /\ UNCHANGED exc
       ELSE /\ Throw(Json(response).exc)
            /\ UNCHANGED out
    /\ UNCHANGED <<step, calls, received, response, data, structures, it, i, s, exitcode>>

\* lines 17, 27, 35, 54, 62
WriteStatus ==
    /\ pc = "status"
    /\ Write([kind |-> "status", parts |-> <<"   Status: ", ToString(response.status_code)>>])
    /\ pc' = IF step = 1 THEN "response" ELSE "decode"
    /\ UNCHANGED <<step, calls, received, response, data, structures, it, i, s, exc, exitcode>>

\* line 18
WriteResponse ==
    /\ pc = "response"
    /\ LET r == Json(response)
       IN  IF r.ok
           THEN /\ Write([kind |-> "response", parts |-> <<"   Response: ", Render(r.val)>>])
                /\ pc' = "blank"
                /\ UNCHANGED exc
           ELSE /\ Throw(r.exc)
                /\ UNCHANGED out
    /\ UNCHANGED <<step, calls, received, response, data, structures, it, i, s, exitcode>>

\* lines 28, 36, 55, 63
DecodeJson ==
    /\ pc = "decode"
    /\ LET r == Json(response)
       IN  IF r.ok
           THEN /\ data' = r.val
                /\ pc' = "read"
                /\ UNCHANGED exc
           ELSE /\ Throw(r.exc)
                /\ UNCHANGED data
    /\ UNCHANGED <<step, calls, received, out, response, structures, it, i, s, exitcode>>

\* line 29
WriteLogin ==
    /\ pc = "read" /\ step = 2
    /\ LET email == GetNested(data, "user", "email")
           fullName == GetNested(data, "user", "fullName")
       IN  IF ~email.ok THEN Throw(email.exc) /\ UNCHANGED out
           ELSE IF ~fullName.ok THEN Throw(fullName.exc) /\ UNCHANGED out
           ELSE /\ Write([kind |-> "user", parts |->
                      <<"   User: ", Render(email.val), " - ", Render(fullName.val)>>])
                /\ pc' = "blank"
                /\ UNCHANGED exc
    /\ UNCHANGED <<step, calls, received, response, data, structures, it, i, s, exitcode>>

\* line 37
WriteProfile ==
    /\ pc = "read" /\ step = 3
    /\ LET email == Get(data, "email", None)
           fullName == Get(data, "fullName", None)
       IN  IF ~email.ok THEN Throw(email.exc) /\ UNCHANGED out
           ELSE IF ~fullName.ok THEN Throw(fullName.exc) /\ UNCHANGED out
           ELSE /\ Write([kind |-> "user", parts |->
                      <<"   User: ", Render(email.val), " - ", Render(fullName.val)>>])
                /\ pc' = "blank"
                /\ UNCHANGED exc
    /\ UNCHANGED <<step, calls, received, response, data, structures, it, i, s, exitcode>>

\* line 56
WriteSaved ==
    /\ pc = "read" /\ step = 4
    /\ LET name == GetNested(data, "structure", "name")
           id == GetNested(data, "structure", "id")
       IN  IF ~name.ok THEN Throw(name.exc) /\ UNCHANGED out
           ELSE IF ~id.ok THEN Throw(id.exc) /\ UNCHANGED out
           ELSE /\ Write([kind |-> "saved", parts |->
                      <<"   Structure: ", Render(name.val), " (ID: ", Render(id.val), ")">>])
                /\ pc' = "blank"
                /\ UNCHANGED exc
    /\ UNCHANGED <<step, calls, received, response, data, structures, it, i, s, exitcode>>

\* line 64
GetStructures ==
    /\ pc = "read" /\ step = 5
    /\ LET r == Get(data, "structures", List(<<>>))
       IN  IF r.ok
           THEN /\ structures' = r.val
                /\ pc' = "total"
                /\ UNCHANGED exc
           ELSE /\ Throw(r.exc)
                /\ UNCHANGED structures
    /\ UNCHANGED <<step, calls, received, out, response, data, it, i, s, exitcode>>

\* line 65
WriteTotal ==
    /\ pc = "total"
    /\ LET n == PyLen(structures)
       IN  IF n.ok
           THEN /\ Write([kind |-> "total", parts |->
                      <<"   Total Structures: ", ToString(n.val)>>])
                /\ pc' = "for"
                /\ UNCHANGED exc
           ELSE /\ Throw(n.exc)
                /\ UNCHANGED out
    /\ UNCHANGED <<step, calls, received, response, data, structures, it, i, s, exitcode>>

\* a loop that stops one entry short
ForStructuresShort ==
    /\ pc = "for"
    /\ IF it + 1 < PyLen(structures).val
       THEN /\ i' = it
            /\ s' = Item(structures, it + 1)
            /\ it' = it + 1
            /\ pc' = "body"
       ELSE /\ pc' = "blank"
            /\ UNCHANGED <<it, i, s>>
    /\ UNCHANGED <<step, calls, received, out, response, data, structures, exc, exitcode>>

\* line 66: for i, s in enumerate(structures)
ForStructures ==
    /\ pc = "for"
    /\ IF it < PyLen(structures).val
       THEN /\ i' = it
            /\ s' = Item(structures, it + 1)
            /\ it' = it + 1
            /\ pc' = "body"
       ELSE /\ pc' = "blank"
            /\ UNCHANGED <<it, i, s>>
    /\ UNCHANGED <<step, calls, received, out, response, data, structures, exc, exitcode>>

\* len(s.get("data", {})) in place of the length of its nodes
WriteStructureCountsData ==
    /\ pc = "body"
    /\ LET name == Get(s, "name", None)
           d == Get(s, "data", Obj(<<>>))
           n == IF d.ok THEN PyLen(d.val) ELSE d
       IN  IF ~name.ok THEN Throw(name.exc) /\ UNCHANGED out
           ELSE IF ~n.ok THEN Throw(n.exc) /\ UNCHANGED out
           ELSE /\ Write([kind |-> "item", parts |->
                      <<"   [", ToString(i + 1), "] ", Render(name.val),
                        " (", ToString(n.val), " nodes)">>])
                /\ pc' = "for"
                /\ UNCHANGED exc
    /\ UNCHANGED <<step, calls, received, response, data, structures, it, i, s, exitcode>>

\* line 67
WriteStructure ==
    /\ pc = "body"
    /\ LET name == Get(s, "name", None)
           nodes == GetNested2(s, "data", "nodes")
           n == IF nodes.ok THEN PyLen(nodes.val) ELSE nodes
       IN  IF ~name.ok THEN Throw(name.exc) /\ UNCHANGED out
           ELSE IF ~n.ok THEN Throw(n.exc) /\ UNCHANGED out
           ELSE /\ Write([kind |-> "item", parts |->
                      <<"   [", ToString(i + 1), "] ", Render(name.val),
                        " (", ToString(n.val), " nodes)">>])
                /\ pc' = "for"
                /\ UNCHANGED exc
    /\ UNCHANGED <<step, calls, received, response, data, structures, it, i, s, exitcode>>

\* a sequence that ends one step early
WriteBlankShort ==
    /\ pc = "blank"
    /\ Write([kind |-> "blank", parts |-> <<>>])
    /\ IF step < NumSteps - 1
       THEN step' = step + 1 /\ pc' = "banner"
       ELSE pc' = "success" /\ UNCHANGED step
    /\ UNCHANGED <<calls, received, response, data, structures, it, i, s, exc, exitcode>>

\* lines 19, 30, 38, 57, 68: print(), then on to the next step
WriteBlank ==
    /\ pc = "blank"
    /\ Write([kind |-> "blank", parts |-> <<>>])
    /\ IF step < NumSteps
       THEN step' = step + 1 /\ pc' = "banner"
       ELSE pc' = "success" /\ UNCHANGED step
    /\ UNCHANGED <<calls, received, response, data, structures, it, i, s, exc, exitcode>>

\* line 70
WriteSuccess ==
    /\ pc = "success"
    /\ Write([kind |-> "success", parts |-> <<"All API tests passed!">>])
    /\ pc' = "exit"
    /\ UNCHANGED <<step, calls, received, response, data, structures, it, i, s, exc, exitcode>>

\* a handler per step: the failure is reported and the next step runs
ExceptHandlerResume ==
    /\ pc = "except"
    /\ Write([kind |-> "error", parts |-> <<"Error: ", exc.text>>])
    /\ IF step < NumSteps
       THEN step' = step + 1 /\ pc' = "banner"
       ELSE pc' = "success" /\ UNCHANGED step
    /\ UNCHANGED <<calls, received, response, data, structures, it, i, s, exc, exitcode>>

\* the success message placed after the try statement instead of inside it
ExceptHandlerFallthrough ==
    /\ pc = "except"
    /\ Write([kind |-> "error", parts |-> <<"Error: ", exc.text>>])
    /\ pc' = "success"
    /\ UNCHANGED <<step, calls, received, response, data, structures, it, i, s, exc, exitcode>>

\* lines 72-73: except Exception as e.  An exception of another class is
\* not caught: the interpreter prints a traceback and exits with status 1.
ExceptHandler ==
    /\ pc = "except"
    /\ IF IsException(exc.cls)
       THEN /\ Write([kind |-> "error", parts |-> <<"Error: ", exc.text>>])
            /\ pc' = "exit"
            /\ UNCHANGED exitcode
       ELSE /\ pc' = "done"
            /\ exitcode' = 1
            /\ UNCHANGED out
    /\ UNCHANGED <<step, calls, received, response, data, structures, it, i, s, exc>>

\* the script ends; the interpreter exits with status 0
Exit ==
    /\ pc = "exit"
    /\ exitcode' = 0
    /\ pc' = "done"
    /\ UNCHANGED <<step, calls, received, out, response, data, structures, it, i, s, exc>>

Next ==
    \/ WriteHeader
    \/ WriteBanner
    \/ HttpCall
    \/ WriteStatus
    \/ WriteResponse
    \/ DecodeJson
    \/ WriteLogin
    \/ WriteProfile
    \/ WriteSaved
    \/ GetStructures
    \/ WriteTotal
    \/ ForStructures
    \/ WriteStructure
    \/ WriteBlank
    \/ WriteSuccess
    \/ ExceptHandler
    \/ Exit

Spec == Init /\ [][Next]_vars

(***************************************************************************)
(* Vocabulary of the properties.                                           *)
(***************************************************************************)
\* the lines of o printed by the statements of one kind, in order
Lines(o, kind) == SelectSeq(o, LAMBDA l : l.kind = kind)

Count(o, kind) == Len(Lines(o, kind))

Last(o) == o[Len(o)]

IsPrefix(a, b) == Len(a) <= Len(b) /\ SubSeq(b, 1, Len(a)) = a

IsObj(v) == v.t = "obj"

\* field k of object v is absent, or holds an object
ObjOrAbsent(v, k) == HasKey(v, k) => IsObj(Lookup(v, k))

\* field k of object v is absent, or holds an array
ListOrAbsent(v, k) == HasKey(v, k) => Lookup(v, k).t = "list"

\* an entry of the structures array with the shape step 5 reads
GoodEntry(e) ==
    /\ IsObj(e)
    /\ ObjOrAbsent(e, "data")
    /\ HasKey(e, "data") => ListOrAbsent(Lookup(e, "data"), "nodes")

\* the structures array of a step-5 body (empty when the key is absent)
StructsOf(v) == IF HasKey(v, "structures") THEN Lookup(v, "structures").v ELSE <<>>

\* body v has the shape step k reads
Shape(k, v) ==
    CASE k = 1 -> TRUE
      [] k = 2 -> IsObj(v) /\ ObjOrAbsent(v, "user")
      [] k = 3 -> IsObj(v)
      [] k = 4 -> IsObj(v) /\ ObjOrAbsent(v, "structure")
      [] k = 5 -> /\ IsObj(v)
                  /\ ListOrAbsent(v, "structures")
                  /\ \A j \in 1..Len(StructsOf(v)) : GoodEntry(StructsOf(v)[j])

Decodable(r) == ~r.refused /\ r.body.decodable

Readable(k, r) == Decodable(r) /\ Shape(k, r.body.json)

AllDecodable == \A k \in 1..Len(received) : Decodable(received[k])

AllReadable == \A k \in 1..Len(received) : Readable(k, received[k])

SomeRefused == \E k \in 1..Len(received) : received[k].refused

\* step 5 got an object whose structures is an array or absent
Step5Listed ==
    /\ Len(received) = NumSteps
    /\ Decodable(received[NumSteps])
    /\ IsObj(received[NumSteps].body.json)
    /\ ListOrAbsent(received[NumSteps].body.json, "structures")

Structs5 == StructsOf(received[NumSteps].body.json)

Numbered(items) == \A j \in 1..Len(items) : items[j].parts[2] = ToString(j)

(***************************************************************************)
(* C1.  As stated: whenever every answer of the backend is a decodable     *)
(* JSON body, a finished run has made exactly the five calls, in order.    *)
(* A decodable body of the wrong type (null for login) ends the run early. *)
(***************************************************************************)
C1_FiveCallsIfDecodable ==
    (pc = "done" /\ AllDecodable) => calls = Endpoints

\* C1, amended: whenever every answer is a JSON body of the shape its step
\* reads, a finished run has made exactly the five calls, each once, in the
\* order register, login, get-profile, save-structure, get-structures.
C1_FiveCallsIfReadable ==
    (pc = "done" /\ AllReadable) => calls = Endpoints

C1_Witness ==
    pc = "done" /\ AllReadable /\ Len(received) = NumSteps /\ Len(calls) = NumSteps

(***************************************************************************)
(* C2.  When a call is refused, no call follows it, at most one failure    *)
(* message is printed, and the finished run ends with exactly one, which   *)
(* carries the connection error.                                           *)
(***************************************************************************)
C2_RefusedStopsTheRun ==
    SomeRefused =>
        /\ received[Len(received)].refused
        /\ \A k \in 1..(Len(received) - 1) : ~received[k].refused
        /\ Len(calls) = Len(received)
        /\ calls = SubSeq(Endpoints, 1, Len(calls))
        /\ Count(out, "error") <= 1
        /\ pc = "done" =>
             /\ Count(out, "error") = 1
             /\ Last(out) = [kind |-> "error", parts |-> <<"Error: ", "Connection refused">>]

C2_Witness ==
    pc = "done" /\ Len(calls) = 1 /\ received[1].refused /\ Count(out, "error") = 1

Lacks(v, k1, k2) ==
    \/ ~HasKey(v, k1)
    \/ IsObj(Lookup(v, k1)) /\ ~HasKey(Lookup(v, k1), k2)

C4_Login ==
    (pc = "read" /\ step = 2 /\ IsObj(data) /\ ObjOrAbsent(data, "user")) =>
        /\ pc' = "blank"
        /\ Last(out').kind = "user"
        /\ Lacks(data, "user", "email") => Last(out').parts[2] = "None"
        /\ Lacks(data, "user", "fullName") => Last(out').parts[4] = "None"

C4_Profile ==
    (pc = "read" /\ step = 3 /\ IsObj(data)) =>
        /\ pc' = "blank"
        /\ Last(out').kind = "user"
        /\ ~HasKey(data, "email") => Last(out').parts[2] = "None"
        /\ ~HasKey(data, "fullName") => Last(out').parts[4] = "None"

C4_Saved ==
    (pc = "read" /\ step = 4 /\ IsObj(data) /\ ObjOrAbsent(data, "structure")) =>
        /\ pc' = "blank"
        /\ Last(out').kind = "saved"
        /\ Lacks(data, "structure", "name") => Last(out').parts[2] = "None"
        /\ Lacks(data, "structure", "id") => Last(out').parts[4] = "None"

C4_Structures ==
    /\ (pc = "read" /\ step = 5 /\ IsObj(data) /\ ~HasKey(data, "structures")) =>
           pc' = "total" /\ structures' = List(<<>>)
    /\ (pc = "total" /\ structures = List(<<>>)) =>
           /\ pc' = "for"
           /\ Last(out') = [kind |-> "total", parts |-> <<"   Total Structures: ", "0">>]
    /\ (pc = "body" /\ GoodEntry(s)) =>
           /\ pc' = "for"
           /\ Last(out').kind = "item"
           /\ ~HasKey(s, "name") => Last(out').parts[4] = "None"
           /\ Lacks(s, "data", "nodes") => Last(out').parts[6] = "0"

C4_Continues ==
    pc = "blank" =>
        IF step < NumSteps THEN pc' = "banner" /\ step' = step + 1
                           ELSE pc' = "success"

C4_MissingFieldsDoNotRaise ==
    [][C4_Login /\ C4_Profile /\ C4_Saved /\ C4_Structures /\ C4_Continues]_vars

C4_Witness ==
    /\ pc = "done"
    /\ exc = Unbound
    /\ Lines(out, "user") =
         << [kind |-> "user", parts |-> <<"   User: ", "None", " - ", "None">>],
            [kind |-> "user", parts |-> <<"   User: ", "None", " - ", "None">>] >>
    /\ Lines(out, "saved") =
         << [kind |-> "saved", parts |-> <<"   Structure: ", "None", " (ID: ", "None", ")">>] >>
    /\ Lines(out, "item") =
         << [kind |-> "item", parts |-> <<"   [", "1", "] ", "None", " (", "0", " nodes)">>] >>

(***************************************************************************)
(* C5.  Once a step has raised, no further step runs and no further call   *)
(* is made; the handler prints one failure message, which carries the      *)
(* exception's text and is the last line of the output; the success        *)
(* message is not printed and the process exits with status 0.             *)
(***************************************************************************)
C5_ExceptionAbortsAndIsReported ==
    exc # Unbound =>
        /\ pc \in {"except", "exit", "done"}
        /\ Len(calls) = step
        /\ Count(out, "banner") = step
        /\ Count(out, "success") = 0
        /\ pc = "except" => Count(out, "error") = 0
        /\ pc \in {"exit", "done"} =>
             /\ Count(out, "error") = 1
             /\ Last(out) = [kind |-> "error", parts |-> <<"Error: ", exc.text>>]
        /\ pc = "done" => exitcode = 0

C5_Witness ==
    /\ pc = "done"
    /\ exitcode = 0
    /\ exc # Unbound
    /\ exc.cls = "AttributeError"
    /\ step = 2
    /\ Last(out).kind = "error"

(***************************************************************************)
(* C6.  The j-th per-structure line shows j, the entry's name and the      *)
(* length of the entry's data.nodes, data and nodes counting as empty when *)
(* absent; the list with the one entry Water of three nodes yields         *)
(* "[1] Water (3 nodes)".                                                  *)
(***************************************************************************)
NameOf(e) == IF HasKey(e, "name") THEN Lookup(e, "name").v ELSE "None"

NodeCountOf(e) ==
    IF ~HasKey(e, "data") THEN 0
    ELSE IF ~HasKey(Lookup(e, "data"), "nodes") THEN 0
    ELSE Len(Lookup(Lookup(e, "data"), "nodes").v)

WaterExample ==
    <<Obj(<< <<"name", Str("Water")>>,
             <<"data", Obj(<< <<"nodes", List(<<Obj(<<>>), Obj(<<>>), Obj(<<>>)>>)>> >>)>> >>)>>

C6_StructureLineContent ==
    /\ \A j \in 1..Count(out, "item") :
          /\ Step5Listed
          /\ j <= Len(Structs5)
          /\ GoodEntry(Structs5[j])
          /\ Lines(out, "item")[j].parts =
                <<"   [", ToString(j), "] ", NameOf(Structs5[j]),
                  " (", ToString(NodeCountOf(Structs5[j])), " nodes)">>
    /\ (pc = "done" /\ Step5Listed /\ Structs5 = WaterExample) =>
          Lines(out, "item") =
              << [kind |-> "item",
                  parts |-> <<"   [", "1", "] ", "Water", " (", "3", " nodes)">>] >>

C6_Witness ==
    /\ pc = "done"
    /\ Step5Listed
    /\ Structs5 = WaterExample
    /\ Count(out, "item") = 1

(***************************************************************************)
(* C7.  Status codes are data: whatever codes the five answers carry, when *)
(* every body has the shape its step reads the finished run has made the   *)
(* five calls, printed each code on its status line, and ended with the    *)
(* success message and no failure message.                                 *)
(***************************************************************************)
C7_StatusIsData ==
    (pc = "done" /\ AllReadable) =>
        /\ Len(calls) = NumSteps
        /\ Count(out, "status") = NumSteps
        /\ \A k \in 1..NumSteps :
              Lines(out, "status")[k].parts[2] = ToString(received[k].status_code)
        /\ Last(out) = [kind |-> "success", parts |-> <<"All API tests passed!">>]
        /\ Count(out, "error") = 0

C7_Witness ==
    /\ pc = "done"
    /\ AllReadable
    /\ Len(received) = NumSteps
    /\ \A k \in 1..NumSteps : received[k].status_code = 500
    /\ Last(out).kind = "success"

(***************************************************************************)
(* C8.  In every state the calls made are a prefix of the five endpoints   *)
(* in order (none skipped, none repeated), and a call is made only when    *)
(* every earlier step has printed its closing blank line and no exception  *)
(* has been raised.                                                        *)
(***************************************************************************)
C8_CallsArePrefix ==
    /\ Len(calls) <= NumSteps
    /\ calls = SubSeq(Endpoints, 1, Len(calls))
    /\ Len(calls) # 0 => Count(out, "blank") \in {Len(calls) - 1, Len(calls)}
    /\ \A k \in 1..(Len(calls) - 1) : Decodable(received[k])
    /\ pc = "call" => exc = Unbound /\ Count(out, "blank") = Len(calls)
    /\ exc # Unbound => Count(out, "blank") = Len(calls) - 1

C8_Witness ==
    /\ pc = "done"
    /\ Len(calls) = 3
    /\ exc # Unbound
    /\ Count(out, "blank") = 2

(***************************************************************************)
(* C9.  A finished run has printed exactly one final message: the success  *)
(* message when no step raised (and then all five steps completed), the    *)
(* failure message when some step raised.                                  *)
(***************************************************************************)
C9_ExactlyOneFinalMessage ==
    pc = "done" =>
        /\ Count(out, "success") + Count(out, "error") = 1
        /\ Last(out).kind \in {"success", "error"}
        /\ Count(out, "success") = 1 <=> (exc = Unbound /\ Count(out, "blank") = NumSteps)
        /\ Count(out, "error") = 1 <=> exc # Unbound

C9_Witness ==
    pc = "done" /\ Count(out, "error") = 1 /\ Count(out, "success") = 0 /\ step = NumSteps

(***************************************************************************)
(* C10.  A step prints its status line before it decodes the body: when    *)
(* step k raises in the call the output holds k-1 status lines, when it    *)
(* raises later it holds k; and every step of the run only appends to the  *)
(* output.                                                                 *)
(***************************************************************************)
C10_Step ==
    /\ IsPrefix(out, out')
    /\ exc' # Unbound =>
          Count(out', "status") =
              IF exc'.cls = "ConnectionError" THEN step' - 1 ELSE step'

C10_StatusBeforeDecode == [][C10_Step]_vars

C10_Witness ==
    /\ pc = "done"
    /\ exc # Unbound
    /\ exc.cls # "ConnectionError"
    /\ step = NumSteps
    /\ Count(out, "status") = NumSteps
    /\ Count(out, "item") >= 1

====
